---------------------------- MODULE Spec2Model ----------------------------
(***************************************************************************)
(* The "generate" command of slsa-provenance                               *)
(* (cmd/slsa-provenance/cli/generate.go): one invocation of Generate.Exec  *)
(* over a small file tree, the four flags, the GITHUB_ACTIONS environment  *)
(* variable, the io.Writer w and the output file.                          *)
(*                                                                         *)
(* Paths are sequences of components, rendered with "/" by Join. Errors    *)
(* are records [kind, msg, errno]; NoError stands for Go's nil error.      *)
(***************************************************************************)
EXTENDS Naturals, Sequences, FiniteSets, TLC

(* ------------------------------ bounds --------------------------------- *)

\* The largest number of entries the scanned root directory lists.
MaxEntries == 2

(* ------------------------- program constants --------------------------- *)

gitHubHostedIDSuffix == "/Attestations/GitHubHostedActions@v1"

selfHostedIDSuffix == "/Attestations/SelfHostedActions@v1"

typeID == "https://github.com/Attestations/GitHubActionsWorkflow@v1"

\* intoto.StatementInTotoV01 and intoto.PredicateSLSAProvenanceV01
statementType == "https://in-toto.io/Statement/v0.1"

predicateType == "https://slsa.dev/provenance/v0.1"

\* flagset.String's default for -output_path
defaultOutputPath == "build.provenance"

(* ------------------------------ errors --------------------------------- *)

NoError == [kind |-> "nil", msg |-> "", errno |-> ""]

\* fmt.Errorf("no value found for required flag: %s", flagName)
RequiredFlagError(flagName) ==
    [kind |-> "RequiredFlag",
     msg |-> "no value found for required flag: " \o flagName,
     errno |-> ""]

\* fmt.Errorf("resource path not found: [provided=%s]", *artifactPath)
NotFoundError(provided) ==
    [kind |-> "NotFound",
     msg |-> "resource path not found: [provided=" \o provided \o "]",
     errno |-> ""]

\* errors.Wrap(err, message)
Wrap(err, message) ==
    [kind |-> "Wrap", msg |-> message \o ": " \o err.msg, errno |-> err.errno]

\* What encoding/json reports for a document it cannot decode.
JSONError(text) == [kind |-> "JSON", msg |-> text, errno |-> ""]

ErrnoText(errno) ==
    IF errno = "ENOENT" THEN "no such file or directory"
    ELSE IF errno = "EACCES" THEN "permission denied"
    ELSE "no space left on device"

RECURSIVE Join(_)
\* filepath.Join of the components of a path
Join(p) ==
    IF Len(p) = 0 THEN ""
    ELSE IF Len(p) = 1 THEN p[1]
    ELSE p[1] \o "/" \o Join(Tail(p))

\* The *fs.PathError of a failed lstat or open.
PathError(op, path, errno) ==
    [kind |-> "PathError",
     msg |-> op \o " " \o Join(path) \o ": " \o ErrnoText(errno),
     errno |-> errno]

\* os.IsNotExist
IsNotExist(err) == err.errno = "ENOENT"

(* --------------------------- the file tree ----------------------------- *)

\* The artifact path the invocations of the model are given, as components.
RootPath == <<"build", "dist">>

\* The names a directory listing draws from, in filepath.Walk's lexical order.
NameList == <<"a.txt", "lib", "z.bin", "zz.sig">>

\* What an entry can be:
\*   file       a readable regular file
\*   symlink    a symbolic link to a readable regular file
\*   dangling   a symbolic link whose target does not exist
\*   noperm     a regular file that cannot be opened (EACCES)
\*   vanished   a name the directory listed and lstat no longer finds (ENOENT)
\*   dir        a readable directory
\*   noperm_dir a directory that cannot be listed (EACCES)
\*   absent     (the root only) nothing exists at the path
LeafKinds == {"file", "symlink", "dangling", "noperm", "vanished"}

SubKinds == {"file", "dangling"}

\* The listings of a subdirectory: empty, or one entry b.txt.
SubListings ==
    {<<>>} \cup {<<[name |-> "b.txt", kind |-> k, sub |-> <<>>]>> : k \in SubKinds}

Entries ==
    [name : {"?"}, kind : LeafKinds \cup {"noperm_dir"}, sub : {<<>>}]
        \cup [name : {"?"}, kind : {"dir"}, sub : SubListings]

\* The listings of the root directory: up to MaxEntries entries, named in order.
RootListings ==
    UNION {
        {[i \in 1..n |-> [f[i] EXCEPT !.name = NameList[i]]] : f \in [1..n -> Entries]}
        : n \in 0..MaxEntries}

FileSystems ==
    [root : {"absent", "file", "symlink", "dangling", "noperm", "noperm_dir"},
     entries : {<<>>}]
        \cup [root : {"dir"}, entries : RootListings]

\* The bytes of the file a path resolves to.
Content(path) ==
    IF path[Len(path)] = "a.txt" THEN "hello\n"
    ELSE IF path[Len(path)] = "b.txt" THEN "abc"
    ELSE ""

\* hex.EncodeToString(sha256.Sum256(contents)), for the contents of the model
Sum256Hex(contents) ==
    IF contents = "hello\n"
    THEN "5891b5b522d5df086d0ff0b110fbd9d21bb4fc7163af34d08286a2e846f6be03"
    ELSE IF contents = "abc"
    THEN "ba7816bf8f01cfea414140de5dae2223b00361a396177a9cb410ff61f20015ad"
    ELSE "e3b0c44298fc1c149afbf4c8996fb92427ae41e4649b934ca495991b7852b855"

RECURSIVE FlattenUnder(_, _)
\* The entries below a directory in the order filepath.Walk meets them:
\* each entry, then what it contains.
FlattenUnder(dir, listing) ==
    IF listing = <<>> THEN <<>>
    ELSE LET e == Head(listing)
             p == Append(dir, e.name)
         IN  <<[path |-> p, kind |-> e.kind]>>
                 \o (IF e.kind = "dir" THEN FlattenUnder(p, e.sub) ELSE <<>>)
                 \o FlattenUnder(dir, Tail(listing))

\* Every entry filepath.Walk(root) would meet if no callback returned an error.
WalkOrder(root, tree) ==
    <<[path |-> root, kind |-> tree.root]>>
        \o (IF tree.root = "dir" THEN FlattenUnder(root, tree.entries) ELSE <<>>)

(* --------------------------- subjects(root) ---------------------------- *)

\* filepath.Rel(root, abspath) for abspath at or below root
Rel(root, abspath) ==
    IF abspath = root THEN <<".">>
    ELSE SubSeq(abspath, Len(root) + 1, Len(abspath))

\* filepath.Base
Base(path) == path[Len(path)]

IsDir(kind) == kind \in {"dir", "noperm_dir"}

\* The err filepath.Walk hands the callback for an entry: a failed lstat, or a
\* failed read of a directory's names.
WalkErr(entry) ==
    IF entry.kind \in {"absent", "vanished"}
    THEN PathError("lstat", entry.path, "ENOENT")
    ELSE IF entry.kind = "noperm_dir"
    THEN PathError("open", entry.path, "EACCES")
    ELSE NoError

\* os.ReadFile(abspath): the error, NoError when the contents are read.
ReadFileErr(entry) ==
    IF entry.kind = "dangling" THEN PathError("open", entry.path, "ENOENT")
    ELSE IF entry.kind = "noperm" THEN PathError("open", entry.path, "EACCES")
    ELSE NoError

\* The subject name without the substitution of the root's base name for ".".
RelName_Dot(root, abspath) == Join(Rel(root, abspath))

\* The subject name of a hashed entry.
RelName(root, abspath) ==
    LET relpath == Rel(root, abspath)
    IN  IF relpath = <<".">> THEN Base(root) ELSE Join(relpath)

\* The callback subjects hands to filepath.Walk, applied to one entry with the
\* subjects s collected so far: the new s and the error it returns.
walkFn(root, entry, s) ==
    IF WalkErr(entry) # NoError THEN [s |-> s, err |-> WalkErr(entry)]
    ELSE IF IsDir(entry.kind) THEN [s |-> s, err |-> NoError]
    ELSE IF ReadFileErr(entry) # NoError THEN [s |-> s, err |-> ReadFileErr(entry)]
    ELSE [s |-> Append(s, [name |-> RelName(root, entry.path),
                            digest |-> Sum256Hex(Content(entry.path))]),
          err |-> NoError]

RECURSIVE WalkFrom_KeepGoing(_, _, _, _)
\* A walk that remembers the first error and goes on to the remaining entries.
WalkFrom_KeepGoing(root, order, i, acc) ==
    IF i > Len(order) THEN acc
    ELSE LET r == walkFn(root, order[i], acc.s)
         IN  WalkFrom_KeepGoing(root, order, i + 1,
                 [s |-> r.s,
                  err |-> IF acc.err # NoError THEN acc.err ELSE r.err,
                  visited |-> Append(acc.visited, order[i].path)])

RECURSIVE WalkFrom(_, _, _, _)
\* filepath.Walk from the i-th entry on: it stops at the first entry whose
\* callback returns an error (the callback never returns SkipDir).
WalkFrom(root, order, i, acc) ==
    IF i > Len(order) THEN acc
    ELSE LET r == walkFn(root, order[i], acc.s)
             next == [s |-> r.s, err |-> r.err,
                      visited |-> Append(acc.visited, order[i].path)]
         IN  IF r.err # NoError THEN next ELSE WalkFrom(root, order, i + 1, next)

\* subjects(root): Walk's error, the entries the walk visited, and s as
\* "return s, filepath.Walk(...)" hands it back. The compiled command reads s
\* once filepath.Walk has returned (a successful scan returns the subjects
\* the callback appended), so a failed scan returns what was appended before
\* the failure.
subjects(root, tree) ==
    WalkFrom(root, WalkOrder(root, tree), 1,
             [s |-> <<>>, err |-> NoError, visited |-> <<>>])

(* ------------------------ the context documents ------------------------ *)

\* The fields of github.Context the command reads, as encoding/json leaves
\* them: a string missing from the document is "", a missing event is the
\* empty json.RawMessage.
GhFull ==
    [repository |-> "org/repo", sha |-> "abc123", workflow |-> "ci",
     run_id |-> "42", event |-> "{\"inputs\":{\"env\":\"prod\"}}"]

\* The parsed contexts of the model: the full one, one with each string field
\* missing, and one for each shape of the event member.
GhRecords ==
    {GhFull,
     [GhFull EXCEPT !.repository = ""],
     [GhFull EXCEPT !.sha = ""],
     [GhFull EXCEPT !.workflow = ""],
     [GhFull EXCEPT !.run_id = ""],
     [GhFull EXCEPT !.event = ""],
     [GhFull EXCEPT !.event = "null"],
     [GhFull EXCEPT !.event = "{}"],
     [GhFull EXCEPT !.event = "\"push\""]}

\* One member of a JSON object, followed by a comma; nothing when the field
\* is missing.
Member(key, value, quote) ==
    IF value = "" THEN ""
    ELSE "\"" \o key \o "\":" \o quote \o value \o quote \o ","

\* The JSON document of a context record, as the workflow passes it in
\* -github_context.
GhDocument(r) ==
    "{" \o Member("repository", r.repository, "\"")
        \o Member("sha", r.sha, "\"")
        \o Member("workflow", r.workflow, "\"")
        \o Member("run_id", r.run_id, "\"")
        \o Member("event", r.event, "")
        \o "\"actor\":\"octocat\"}"

NotJSON == "not json"

GithubDocs == {"", NotJSON} \cup {GhDocument(r) : r \in GhRecords}

RunnerDocs == {"", NotJSON, "{\"os\":\"Linux\"}"}

\* The runner context of another runner.
OtherRunnerDoc == "{\"os\":\"macOS\"}"

\* json.Unmarshal([]byte(*githubContext), &anyCtx.Context)
UnmarshalContext(doc) ==
    IF \E r \in GhRecords : GhDocument(r) = doc
    THEN [err |-> NoError, ctx |-> CHOOSE r \in GhRecords : GhDocument(r) = doc]
    ELSE [err |-> JSONError("invalid character 'o' in literal null (expecting 'u')"),
          ctx |-> [repository |-> "", sha |-> "", workflow |-> "", run_id |-> "",
                   event |-> ""]]

\* json.Unmarshal([]byte(*runnerContext), &anyCtx.RunnerContext): the error
UnmarshalRunner(doc) ==
    IF doc \in (RunnerDocs \cup {OtherRunnerDoc}) \ {"", NotJSON} THEN NoError
    ELSE JSONError("invalid character 'o' in literal null (expecting 'u')")

\* An event decoder that is skipped for a missing event.
UnmarshalEvent_SkipEmpty(raw) ==
    IF raw = "\"push\""
    THEN [err |-> JSONError("json: cannot unmarshal string into Go value of type github.AnyEvent"),
          inputs |-> ""]
    ELSE IF raw = "{\"inputs\":{\"env\":\"prod\"}}"
    THEN [err |-> NoError, inputs |-> "{\"env\":\"prod\"}"]
    ELSE [err |-> NoError, inputs |-> ""]

\* json.Unmarshal(gh.Event, &event) into github.AnyEvent: the error and
\* event.Inputs (the empty RawMessage when the event has no inputs member).
UnmarshalEvent(raw) ==
    IF raw = "" THEN [err |-> JSONError("unexpected end of JSON input"), inputs |-> ""]
    ELSE IF raw = "\"push\""
    THEN [err |-> JSONError("json: cannot unmarshal string into Go value of type github.AnyEvent"),
          inputs |-> ""]
    ELSE IF raw = "{\"inputs\":{\"env\":\"prod\"}}"
    THEN [err |-> NoError, inputs |-> "{\"env\":\"prod\"}"]
    ELSE [err |-> NoError, inputs |-> ""]

(* ---------------------------- the statement ---------------------------- *)

\* The zero intoto.Statement.
ZeroStatement ==
    [type |-> "", predicateType |-> "", subject |-> <<>>,
     predicate |->
        [builder |-> [id |-> ""],
         recipe |-> [type |-> "", definedInMaterial |-> 0, entryPoint |-> "",
                     arguments |-> ""],
         metadata |-> [buildInvocationId |-> ""],
         materials |-> <<>>]]

\* The values of GITHUB_ACTIONS; "" is also what os.Getenv returns when the
\* variable is unset.
EnvValues == {"true", "false", "", "TRUE"}

\* A builder id that accepts any spelling of true.
builderID_AnyCase(repoURI, githubActions) ==
    IF githubActions \in {"true", "TRUE"} THEN repoURI \o gitHubHostedIDSuffix
    ELSE repoURI \o selfHostedIDSuffix

\* builderID(repoURI), with the value os.Getenv("GITHUB_ACTIONS") returns
builderID(repoURI, githubActions) ==
    IF githubActions = "true" THEN repoURI \o gitHubHostedIDSuffix
    ELSE repoURI \o selfHostedIDSuffix

\* intoto.SLSAProvenanceStatement(WithSubject(s), WithBuilder(id), WithMetadata(inv))
SLSAProvenanceStatement(s, id, inv) ==
    [ZeroStatement EXCEPT !.type = statementType,
                          !.predicateType = predicateType,
                          !.subject = s,
                          !.predicate.builder.id = id,
                          !.predicate.metadata.buildInvocationId = inv]

RECURSIVE MarshalSubjects(_)
MarshalSubjects(s) ==
    IF s = <<>> THEN ""
    ELSE "    {\n      \"name\": \"" \o s[1].name \o "\",\n"
         \o "      \"digest\": {\n        \"sha256\": \"" \o s[1].digest \o "\"\n      }\n    }"
         \o (IF Len(s) > 1 THEN ",\n" ELSE "\n") \o MarshalSubjects(Tail(s))

RECURSIVE MarshalMaterials(_)
MarshalMaterials(m) ==
    IF m = <<>> THEN ""
    ELSE "      {\n        \"uri\": \"" \o m[1].uri \o "\",\n"
         \o "        \"digest\": {\n          \"sha1\": \"" \o m[1].sha1 \o "\"\n        }\n      }"
         \o (IF Len(m) > 1 THEN ",\n" ELSE "\n") \o MarshalMaterials(Tail(m))

\* A json.RawMessage under MarshalIndent at the depth of recipe.arguments.
MarshalRaw(raw) ==
    IF raw = "" THEN "null"
    ELSE IF raw = "{\"env\":\"prod\"}" THEN "{\n        \"env\": \"prod\"\n      }"
    ELSE raw

\* json.MarshalIndent(stmt, "", "  ")
MarshalIndent(st) ==
    "{\n  \"_type\": \"" \o st.type \o "\",\n"
    \o "  \"predicateType\": \"" \o st.predicateType \o "\",\n"
    \o "  \"subject\": "
    \o (IF st.subject = <<>> THEN "null" ELSE "[\n" \o MarshalSubjects(st.subject) \o "  ]")
    \o ",\n  \"predicate\": {\n"
    \o "    \"builder\": {\n      \"id\": \"" \o st.predicate.builder.id \o "\"\n    },\n"
    \o "    \"recipe\": {\n      \"type\": \"" \o st.predicate.recipe.type \o "\",\n"
    \o "      \"definedInMaterial\": "
    \o (IF st.predicate.recipe.definedInMaterial = 0 THEN "0" ELSE "1") \o ",\n"
    \o "      \"entryPoint\": \"" \o st.predicate.recipe.entryPoint \o "\",\n"
    \o "      \"arguments\": " \o MarshalRaw(st.predicate.recipe.arguments) \o "\n    },\n"
    \o "    \"metadata\": {\n      \"buildInvocationId\": \""
    \o st.predicate.metadata.buildInvocationId \o "\"\n    },\n"
    \o "    \"materials\": "
    \o (IF st.predicate.materials = <<>> THEN "[]"
        ELSE "[\n" \o MarshalMaterials(st.predicate.materials) \o "    ]")
    \o "\n  }\n}"

(* --------------------------- the invocation ---------------------------- *)

VARIABLES
    artifactPath,   \* -artifact_path
    outputPath,     \* -output_path
    githubContext,  \* -github_context
    runnerContext,  \* -runner_context
    githubActions,  \* what os.Getenv("GITHUB_ACTIONS") returns
    tree,           \* the file tree at the artifact path
    pc,             \* the position of Exec
    subs,           \* Exec's subjects
    scanErr,        \* the error subjects returned to Exec
    visited,        \* the entries the walk has visited
    parsed,         \* the documents json.Unmarshal has been given
    gh,             \* anyCtx.Context
    stmt,           \* the statement under construction
    payload,        \* the serialized statement
    w,              \* what has been written to the io.Writer
    outFile,        \* the file at the output path
    outFile0,       \* the file at the output path when the invocation began
    writeCalls,     \* the calls of os.WriteFile
    err,            \* the error Exec returned
    run,            \* first or second invocation
    prevPayload     \* the payload of the first invocation, in the second

vars ==
    <<artifactPath, outputPath, githubContext, runnerContext, githubActions, tree,
      pc, subs, scanErr, visited, parsed, gh, stmt, payload, w, outFile, outFile0,
      writeCalls, err, run, prevPayload>>

inputs == <<artifactPath, outputPath, githubContext, runnerContext, githubActions, tree>>

ArtifactPaths == {"", Join(RootPath)}

OutputPaths == {"", defaultOutputPath}

\* The components of an artifact path.
Split(path) == IF path = Join(RootPath) THEN RootPath ELSE <<path>>

\* The state of a file: whether it exists, and its bytes, given as the first
\* size bytes of data. No file:
Absent == [exists |-> FALSE, data |-> "", size |-> 0]

\* The file holding the first n bytes of data.
FilePrefix(data, n) ==
    [exists |-> TRUE, data |-> IF n = 0 THEN "" ELSE data, size |-> n]

\* The file holding data.
File(data) == FilePrefix(data, Len(data))

\* One flag as flag.PrintDefaults prints it.
FlagUsage(name, usage) == "  -" \o name \o " string\n    \t" \o usage \o "\n"

\* What flagset.Usage() prints to w: the flag package's heading and
\* PrintDefaults, the flags in lexical order with their help.
UsageText ==
    "Usage of slsa-provenance generate:\n"
    \o FlagUsage("artifact_path",
                 "The file or dir path of the artifacts for which provenance should be generated.")
    \o FlagUsage("github_context", "The '${github}' context value.")
    \o FlagUsage("output_path",
                 "The path to which the generated provenance should be written."
                 \o " (default \"" \o defaultOutputPath \o "\")")
    \o FlagUsage("runner_context", "The '${runner}' context value.")

\* fmt.Sprintf("Saving provenance to %s:\n\n%s\n", *outputPath, string(payload))
SavingText(path, data) == "Saving provenance to " \o path \o ":\n\n" \o data \o "\n"

\* The zero github.Context.
ZeroContext ==
    [repository |-> "", sha |-> "", workflow |-> "", run_id |-> "", event |-> ""]

\* The state of Exec's locals before its first statement.
Fresh ==
    /\ pc = "flags"
    /\ subs = <<>>
    /\ scanErr = NoError
    /\ visited = <<>>
    /\ parsed = <<>>
    /\ gh = ZeroContext
    /\ stmt = ZeroStatement
    /\ payload = ""
    /\ w = <<>>
    /\ writeCalls = 0
    /\ err = NoError

Init ==
    /\ artifactPath \in ArtifactPaths
    /\ outputPath \in OutputPaths
    /\ githubContext \in GithubDocs
    /\ runnerContext \in RunnerDocs
    /\ githubActions \in EnvValues
    /\ tree \in FileSystems
    /\ Fresh
    /\ outFile = Absent
    /\ outFile0 = Absent
    /\ run = 1
    /\ prevPayload = ""

\* Exec returns e.
Return(e) == pc' = "done" /\ err' = e

\* The required flags without the check of -runner_context.
MissingFlag_NoRunner ==
    IF artifactPath = "" THEN "-artifact_path"
    ELSE IF outputPath = "" THEN "-output_path"
    ELSE IF githubContext = "" THEN "-github_context"
    ELSE ""

\* The first required flag that is empty, "" when there is none.
MissingFlag ==
    IF artifactPath = "" THEN "-artifact_path"
    ELSE IF outputPath = "" THEN "-output_path"
    ELSE IF githubContext = "" THEN "-github_context"
    ELSE IF runnerContext = "" THEN "-runner_context"
    ELSE ""

\* Lines 88-103: the required flags.
CheckFlags ==
    /\ pc = "flags"
    /\ IF MissingFlag # ""
       THEN /\ w' = Append(w, UsageText)
            /\ Return(RequiredFlagError(MissingFlag))
       ELSE /\ pc' = "scan"
            /\ UNCHANGED <<w, err>>
    /\ UNCHANGED <<inputs, subs, scanErr, visited, parsed, gh, stmt, payload, outFile,
                   outFile0, writeCalls, run, prevPayload>>

\* The error Exec returns for the error of subjects.
ScanFailure(e, provided) == IF IsNotExist(e) THEN NotFoundError(provided) ELSE e

\* Lines 105-110: the scan of the artifact path.
Scan ==
    /\ pc = "scan"
    /\ LET r == subjects(Split(artifactPath), tree)
       IN  /\ subs' = r.s
           /\ scanErr' = r.err
           /\ visited' = r.visited
           /\ IF r.err # NoError
              THEN Return(ScanFailure(r.err, artifactPath))
              ELSE pc' = "github" /\ UNCHANGED err
    /\ UNCHANGED <<inputs, parsed, gh, stmt, payload, w, outFile, outFile0, writeCalls,
                   run, prevPayload>>

\* Lines 112-115: the github context.
ParseGithub ==
    /\ pc = "github"
    /\ parsed' = Append(parsed, "github")
    /\ LET r == UnmarshalContext(githubContext)
       IN  /\ gh' = r.ctx
           /\ IF r.err # NoError
              THEN Return(Wrap(r.err, "failed to unmarshal github context json"))
              ELSE pc' = "runner" /\ UNCHANGED err
    /\ UNCHANGED <<inputs, subs, scanErr, visited, stmt, payload, w, outFile, outFile0,
                   writeCalls, run, prevPayload>>

\* Lines 116-118: the runner context.
ParseRunner ==
    /\ pc = "runner"
    /\ parsed' = Append(parsed, "runner")
    /\ IF UnmarshalRunner(runnerContext) # NoError
       THEN Return(Wrap(UnmarshalRunner(runnerContext),
                        "failed to unmarshal runner context json"))
       ELSE pc' = "assemble" /\ UNCHANGED err
    /\ UNCHANGED <<inputs, subs, scanErr, visited, gh, stmt, payload, w, outFile,
                   outFile0, writeCalls, run, prevPayload>>

\* "https://github.com/" + gh.Repository
RepoURI(ctx) == "https://github.com/" \o ctx.repository

\* Lines 122-138: the statement with its subject, builder, metadata and
\* recipe, and an empty materials list.
Assembled(s, ctx, env) ==
    LET repoURI == RepoURI(ctx)
        st == SLSAProvenanceStatement(s, builderID(repoURI, env),
                                      repoURI \o "/actions/runs/" \o ctx.run_id)
    IN  [st EXCEPT !.predicate.recipe =
                       [type |-> typeID, definedInMaterial |-> 0,
                        entryPoint |-> ctx.workflow, arguments |-> ""],
                   !.predicate.materials = <<>>]

\* Lines 119-138.
Assemble ==
    /\ pc = "assemble"
    /\ stmt' = Assembled(subs, gh, githubActions)
    /\ pc' = "event"
    /\ UNCHANGED <<inputs, subs, scanErr, visited, parsed, gh, payload, w, outFile,
                   outFile0, writeCalls, err, run, prevPayload>>

\* Line 145: the material appended to the statement.
Material(ctx) == [uri |-> "git+" \o RepoURI(ctx), sha1 |-> ctx.sha]

\* The statement with the recipe's arguments, the material forgotten.
Completed_NoMaterial(st, inputsRaw, ctx) ==
    [st EXCEPT !.predicate.recipe.arguments = inputsRaw]

\* Lines 144-145: the statement with the recipe's arguments and the material.
Completed(st, inputsRaw, ctx) ==
    [st EXCEPT !.predicate.recipe.arguments = inputsRaw,
               !.predicate.materials = Append(st.predicate.materials, Material(ctx))]

\* Lines 139-145: the event, the recipe's arguments and the material.
ParseEvent ==
    /\ pc = "event"
    /\ parsed' = Append(parsed, "event")
    /\ LET r == UnmarshalEvent(gh.event)
       IN  IF r.err # NoError
           THEN /\ Return(Wrap(r.err, "failed to unmarshal github context event json"))
                /\ UNCHANGED stmt
           ELSE /\ stmt' = Completed(stmt, r.inputs, gh)
                /\ pc' = "emit"
                /\ UNCHANGED err
    /\ UNCHANGED <<inputs, subs, scanErr, visited, gh, payload, w, outFile, outFile0,
                   writeCalls, run, prevPayload>>

\* The statement is serialized and not printed.
Emit_Silent ==
    /\ pc = "emit"
    /\ payload' = MarshalIndent(stmt)
    /\ pc' = "write"
    /\ UNCHANGED <<inputs, subs, scanErr, visited, parsed, gh, stmt, w, outFile, outFile0,
                   writeCalls, err, run, prevPayload>>

\* Lines 150-151: the statement is serialized and printed.
Emit ==
    /\ pc = "emit"
    /\ payload' = MarshalIndent(stmt)
    /\ w' = Append(w, SavingText(outputPath, payload'))
    /\ pc' = "write"
    /\ UNCHANGED <<inputs, subs, scanErr, visited, parsed, gh, stmt, outFile, outFile0,
                   writeCalls, err, run, prevPayload>>

\* The numbers of bytes a write that fails part-way may have written: any
\* number below Len(data); the model draws none, one, half and all but one.
ShortSizes(data) == {0, 1, Len(data) \div 2, Len(data) - 1}

\* What os.WriteFile can do: write the file; fail to open it (the file is
\* left as it was); fail while writing (the file, truncated when it was
\* opened, is left with the n bytes written before the error).
WriteOutcomes(data) ==
    {[kind |-> "ok", n |-> Len(data)], [kind |-> "denied", n |-> 0]}
        \cup {[kind |-> "short", n |-> k] : k \in ShortSizes(data)}

\* The file after os.WriteFile(path, data, 0755) ended with the outcome.
Written(before, data, outcome) ==
    IF outcome.kind = "denied" THEN before ELSE FilePrefix(data, outcome.n)

\* Lines 153-157: the output file.
WriteFile ==
    /\ pc = "write"
    /\ \E outcome \in WriteOutcomes(payload) :
        /\ outFile' = Written(outFile, payload, outcome)
        /\ Return(IF outcome.kind = "ok" THEN NoError
                  ELSE IF outcome.kind = "denied"
                  THEN Wrap(PathError("open", <<outputPath>>, "EACCES"),
                            "failed to write provenance")
                  ELSE Wrap(PathError("write", <<outputPath>>, "ENOSPC"),
                            "failed to write provenance"))
    /\ writeCalls' = writeCalls + 1
    /\ UNCHANGED <<inputs, subs, scanErr, visited, parsed, gh, stmt, payload, w, outFile0,
                   run, prevPayload>>

\* The command is run a second time after a successful first run, over the
\* same tree, with the same github context and the same GITHUB_ACTIONS, and
\* with any runner context and output path.
Rerun ==
    /\ pc = "done"
    /\ err = NoError
    /\ run = 1
    /\ run' = 2
    /\ prevPayload' = payload
    /\ runnerContext' \in RunnerDocs \cup {OtherRunnerDoc}
    /\ outputPath' \in OutputPaths \cup {"out/provenance.json"}
    /\ outFile' = IF outputPath' = outputPath THEN outFile ELSE Absent
    /\ outFile0' = outFile'
    /\ pc' = "flags"
    /\ subs' = <<>>
    /\ scanErr' = NoError
    /\ visited' = <<>>
    /\ parsed' = <<>>
    /\ gh' = ZeroContext
    /\ stmt' = ZeroStatement
    /\ payload' = ""
    /\ w' = <<>>
    /\ writeCalls' = 0
    /\ err' = NoError
    /\ UNCHANGED <<artifactPath, githubContext, githubActions, tree>>

Next ==
    \/ CheckFlags
    \/ Scan
    \/ ParseGithub
    \/ ParseRunner
    \/ Assemble
    \/ ParseEvent
    \/ Emit
    \/ WriteFile
    \/ Rerun

Spec == Init /\ [][Next]_vars

(* ------------------------------ properties ----------------------------- *)

\* Exec has returned.
Done == pc = "done"

\* The statement has been serialized (line 150 has run).
Emitted == pc \in {"write", "done"} /\ payload # ""

\* The errors a failed os.WriteFile makes Exec return.
WriteErrors ==
    {[kind |-> "Wrap",
      msg |-> "failed to write provenance: open " \o outputPath \o ": permission denied",
      errno |-> "EACCES"],
     [kind |-> "Wrap",
      msg |-> "failed to write provenance: write " \o outputPath
              \o ": no space left on device",
      errno |-> "ENOSPC"]}

\* Exec returned an error raised before the output write.
FailedBeforeWrite == Done /\ err # NoError /\ err \notin WriteErrors

\* The walk order of the invocation's tree.
Order == WalkOrder(RootPath, tree)

\* An entry at which the scan meets an I/O error.
Failing(e) == e.kind \in {"absent", "vanished", "noperm_dir", "dangling", "noperm"}

\* The error the scan meets at a failing entry.
FailureAt(e) ==
    [kind |-> "PathError",
     msg |-> (IF e.kind \in {"absent", "vanished"} THEN "lstat " ELSE "open ")
             \o (IF Len(e.path) = 2 THEN "build/dist"
                 ELSE IF Len(e.path) = 3 THEN "build/dist/" \o e.path[3]
                 ELSE "build/dist/" \o e.path[3] \o "/" \o e.path[4])
             \o (IF e.kind \in {"noperm", "noperm_dir"} THEN ": permission denied"
                 ELSE ": no such file or directory"),
     errno |-> IF e.kind \in {"noperm", "noperm_dir"} THEN "EACCES" ELSE "ENOENT"]

\* The name a subject of an entry is expected to carry: the base name of the
\* root for the root, the path below the root otherwise.
ExpectedName(e) ==
    IF Len(e.path) = 2 THEN "dist"
    ELSE IF Len(e.path) = 3 THEN e.path[3]
    ELSE e.path[3] \o "/" \o e.path[4]

IsRegular(e) == e.kind = "file"

\* The entries os.ReadFile can read: regular files, and links to them.
IsReadable(e) == e.kind \in {"file", "symlink"}

NamesOf(entries) == [i \in 1..Len(entries) |-> ExpectedName(entries[i])]

SubjectNames == [i \in 1..Len(subs) |-> subs[i].name]

\* The scan has run (line 105 has returned).
Scanned == pc \notin {"flags", "scan"} /\ visited # <<>>

\* The part of C1 about the calls of os.WriteFile: an invocation that ends
\* with an error raised before the output write leaves the output file as it
\* was and never calls os.WriteFile; one that ends successfully has called it
\* exactly once and the file holds the serialized statement, which still is
\* the serialization of stmt; no invocation calls os.WriteFile twice.
WriteOnce ==
    /\ writeCalls <= 1
    /\ FailedBeforeWrite => writeCalls = 0 /\ outFile = outFile0
    /\ Done /\ err = NoError =>
        /\ writeCalls = 1
        /\ outFile = [exists |-> TRUE, data |-> payload, size |-> Len(payload)]
        /\ payload = MarshalIndent(stmt)
    /\ pc = "write" => payload = MarshalIndent(stmt) /\ outFile = outFile0

\* C1: the output file is written at most once, never by an invocation that
\* fails before the write and exactly once, with the serialized statement,
\* by one that succeeds; and there is no partial output: an invocation that
\* ends with an error, whichever it is, leaves the output file as it was.
C1_NoPartialOutput ==
    /\ WriteOnce
    /\ Done /\ err # NoError => outFile = outFile0

\* C2 as claimed: when the scan fails, the list subjects returns together
\* with the error holds none of the subjects hashed before the failure.
C2_Original == scanErr # NoError => subs = <<>>

\* C2 as amended: when the scan meets an I/O error at an entry, the walk has
\* visited the entries up to that one and no other, subjects returns the
\* error of that entry together with the subjects hashed before it, and Exec
\* discards them: it returns an error at once, without a statement, without
\* output on w and without touching the output file.
C2_PartialResultsDropped ==
    scanErr # NoError =>
        LET n == Len(visited)
        IN  /\ n \in 1..Len(Order)
            /\ \A i \in 1..n : visited[i] = Order[i].path
            /\ \A i \in 1..(n - 1) : ~Failing(Order[i])
            /\ Failing(Order[n])
            /\ scanErr = FailureAt(Order[n])
            /\ SubjectNames = NamesOf(SelectSeq(SubSeq(Order, 1, n - 1), IsReadable))
            /\ Done /\ err # NoError
            /\ stmt = ZeroStatement /\ payload = "" /\ w = <<>>
            /\ writeCalls = 0 /\ outFile = outFile0

C2_Witness ==
    /\ scanErr # NoError /\ Len(subs) >= 1
    /\ Len(visited) = 4 /\ Done

\* C3: the invocation fails with NotFound carrying the provided path exactly
\* when the root path does not exist, and every other I/O error of the scan
\* is returned as it is.
C3_NotFoundOnlyForRoot ==
    Done /\ Scanned =>
        LET rootMissing == tree.root \in {"absent", "dangling"}
        IN  /\ err.kind = "NotFound" <=> rootMissing
            /\ rootMissing =>
                 err.msg = "resource path not found: [provided=" \o artifactPath \o "]"
            /\ scanErr # NoError /\ ~rootMissing => err = scanErr

\* C4: with a required flag empty the invocation ends with the required-flag
\* error of the first empty one, in the order artifact_path, output_path,
\* github_context, runner_context, and nothing else has happened: no entry
\* visited, no document parsed, no statement, no write.
C4_MissingFlagFailsFast ==
    (artifactPath = "" \/ outputPath = "" \/ githubContext = "" \/ runnerContext = "") =>
        /\ pc \in {"flags", "done"}
        /\ visited = <<>> /\ parsed = <<>>
        /\ stmt = ZeroStatement /\ payload = ""
        /\ writeCalls = 0 /\ outFile = outFile0
        /\ Done =>
            /\ err.kind = "RequiredFlag"
            /\ err.msg = "no value found for required flag: "
                  \o (IF artifactPath = "" THEN "-artifact_path"
                      ELSE IF outputPath = "" THEN "-output_path"
                      ELSE IF githubContext = "" THEN "-github_context"
                      ELSE "-runner_context")

C4_Witness ==
    /\ Done /\ err.msg = "no value found for required flag: -runner_context"
    /\ runnerContext = "" /\ githubContext # ""
    /\ tree.root = "dir" /\ Len(tree.entries) = 2

\* C5 as claimed: over a readable tree subjects returns one subject per
\* regular file, in traversal order, and none for any other entry.
C5_Original ==
    Scanned /\ scanErr = NoError =>
        SubjectNames = NamesOf(SelectSeq(Order, IsRegular))

\* C5 as amended: over a tree whose entries can all be read, subjects
\* returns one subject per entry that is not a directory (a regular file, or
\* a symbolic link to one, hashed through the link) and none for a directory,
\* in traversal order, named by the path below the root, or by the base name
\* of the root when the root itself is the entry; the names are distinct.
C5_OneSubjectPerNonDirectory ==
    Scanned /\ scanErr = NoError =>
        /\ SubjectNames = NamesOf(SelectSeq(Order, IsReadable))
        /\ \A i, j \in 1..Len(subs) : subs[i].name = subs[j].name => i = j
        /\ \A e \in {Order[i] : i \in 1..Len(Order)} : e.kind \in {"file", "symlink", "dir"}
        /\ tree.root # "dir" => SubjectNames = <<"dist">>
        /\ tree.root = "dir" /\ tree.entries = <<>> => subs = <<>>

C5_Witness ==
    /\ Scanned /\ scanErr = NoError
    /\ SubjectNames = <<"a.txt", "lib/b.txt">>
    /\ tree.entries[1].kind = "symlink"

\* C7: the builder id of an emitted statement is the repository URI followed
\* by the hosted suffix when GITHUB_ACTIONS is "true", and by the self-hosted
\* suffix for every other value.
C7_BuilderId ==
    Emitted =>
        stmt.predicate.builder.id =
            "https://github.com/" \o gh.repository
                \o (IF githubActions = "true"
                    THEN "/Attestations/GitHubHostedActions@v1"
                    ELSE "/Attestations/SelfHostedActions@v1")

C7_Witness ==
    /\ Emitted /\ githubActions = "TRUE"
    /\ stmt.predicate.builder.id = "https://github.com/org/repo/Attestations/SelfHostedActions@v1"

\* C8: an emitted statement has exactly one material, the repository at the
\* commit, and its recipe's definedInMaterial is 0, an index into the list.
C8_OneMaterial ==
    Emitted =>
        /\ stmt.predicate.materials =
              <<[uri |-> "git+https://github.com/" \o gh.repository, sha1 |-> gh.sha]>>
        /\ stmt.predicate.recipe.definedInMaterial = 0
        /\ stmt.predicate.recipe.definedInMaterial < Len(stmt.predicate.materials)

C8_Witness ==
    /\ Done /\ err = NoError
    /\ stmt.predicate.materials =
          <<[uri |-> "git+https://github.com/org/repo", sha1 |-> "abc123"]>>

\* Both contexts have been parsed (line 119 has been reached).
ContextParsed == pc \in {"assemble", "event"} \/ Len(parsed) = 3

\* C9 as claimed: once the build context is parsed the invocation does not
\* fail before the statement is serialized.
C9_Original == Done /\ ContextParsed => payload # ""

\* C9 as amended: once the build context is parsed, a missing repository,
\* sha, workflow or run_id propagates into the statement as an empty field;
\* an event that is missing or is a JSON value json.Unmarshal cannot store in
\* the event structure (a string) makes the invocation fail with the wrapped
\* event error, and no statement is serialized.
C9_AssemblyOutcome ==
    Done /\ ContextParsed =>
        IF gh.event \in {"", "\"push\""}
        THEN /\ err.kind = "Wrap"
             /\ err.msg \in
                  {"failed to unmarshal github context event json: " \o m : m \in
                      {"unexpected end of JSON input",
                       "json: cannot unmarshal string into Go value of type github.AnyEvent"}}
             /\ payload = "" /\ w = <<>> /\ writeCalls = 0
        ELSE /\ payload # ""
             /\ err = NoError \/ err \in WriteErrors
             /\ stmt.predicate.recipe.entryPoint = gh.workflow
             /\ stmt.predicate.materials[1].sha1 = gh.sha
             /\ stmt.predicate.materials[1].uri = "git+https://github.com/" \o gh.repository
             /\ stmt.predicate.metadata.buildInvocationId =
                   "https://github.com/" \o gh.repository \o "/actions/runs/" \o gh.run_id

C9_Witness ==
    /\ Done /\ ContextParsed /\ gh.repository = "" /\ err = NoError
    /\ stmt.predicate.materials[1].uri = "git+https://github.com/"

\* C10 as claimed: an invocation that ends in an error has written nothing
\* to w, and a successful one only the rendered document.
C10_Original ==
    Done =>
        IF err # NoError THEN w = <<>>
        ELSE w = <<"Saving provenance to " \o outputPath \o ":\n\n" \o payload \o "\n">>

\* C10 as amended: w receives the usage text when a required flag is
\* missing, and the rendered document as soon as the statement is
\* serialized, before the output file is written: a failed write leaves the
\* document on w, and every other failing invocation leaves w empty.
C10_WriterOutput ==
    Done =>
        IF err.kind = "RequiredFlag"
        THEN w = <<"Usage of slsa-provenance generate:\n"
                   \o "  -artifact_path string\n"
                   \o "    \tThe file or dir path of the artifacts for which provenance should be generated.\n"
                   \o "  -github_context string\n"
                   \o "    \tThe '${github}' context value.\n"
                   \o "  -output_path string\n"
                   \o "    \tThe path to which the generated provenance should be written. (default \"build.provenance\")\n"
                   \o "  -runner_context string\n"
                   \o "    \tThe '${runner}' context value.\n">>
        ELSE IF writeCalls = 1
        THEN w = <<"Saving provenance to " \o outputPath \o ":\n\n" \o payload \o "\n">>
        ELSE w = <<>>

C10_Witness ==
    /\ Done /\ err \in WriteErrors /\ err.errno = "ENOSPC"
    /\ outFile.size > 1 /\ outFile.size < Len(payload) - 1
    /\ w = <<"Saving provenance to build.provenance:\n\n" \o payload \o "\n">>

=============================================================================
